---- MODULE Spec2Model ----
(***************************************************************************)
(* Task actions of the Starknet Hardhat plugin (src/src/task-actions.ts):  *)
(* the test/run actions with the integrated-devnet supervisor and the    *)
(* compile actions and the Scarb build action, as one state machine.  One  *)
(* behaviour is one invocation of one task.                                *)
(***************************************************************************)
EXTENDS Integers, Sequences, FiniteSets, TLC

\* ------------------------------------------------------------------------
\* Bounds of the model
\* ------------------------------------------------------------------------
MaxPaths == 2
MaxFiles == 2
MaxTargets == 2
MaxEntries == 2

Files == 1..MaxFiles

\* ------------------------------------------------------------------------
\* Names and inputs
\* ------------------------------------------------------------------------
INTEGRATED_DEVNET == "integrated-devnet"

NoName == ""

NetworkNames == {INTEGRATED_DEVNET, "alpha-goerli", "custom"}

\* exit status of an external compiler process
ExitCodes == {0, 1, 2}

\* values of the flags of a compile invocation; the earlier run used PriorArgs
ArgsValues == {0, 1}

PriorArgs == 0

\* no cache entry, no compiler call
NoArgs == -1

\* kinds of artifact file of one source file
Kinds == {"output", "abi", "casm"}

\* sequences over S of length at most n
SeqsUpTo(S, n) == UNION {[1..k -> S] : k \in 0..n}

\* [package] name of a manifest
PackageName == "pkg"

\* one [[target.starknet-contract]] table: name ("" when left out), sierra, casm
TargetConfigs == [name : {"", PackageName, "other"}, sierra : BOOLEAN, casm : BOOLEAN]

\* content of a Scarb.toml: whether it parses, and its starknet-contract targets
NoManifest == [parses |-> FALSE, targets |-> << >>]

Manifests == {NoManifest} \cup
             [parses : {TRUE}, targets : SeqsUpTo(TargetConfigs, MaxTargets)]

\* the manifests that differ in what is read of them: without validation the
\* target tables are not looked at
ManifestsRead(validate) ==
    IF validate THEN Manifests
    ELSE {NoManifest, [parses |-> TRUE, targets |-> << >>]}

\* package_name and contract_name of the entries of a build report
PackageNames == {"a", "a_b"}

ContractNames == {"c", "b_c"}

\* the contracts the packages define, as <<package_name, contract_name>>, in
\* the order in which a build report lists them
Contracts == << <<"a", "b_c">>, <<"a", "c">>, <<"a_b", "c">> >>

\* one entry of mainPackageArtifact.contracts: its names, and which artifacts it names
ContractEntries == {e \in [package_name : PackageNames, contract_name : ContractNames,
                           sierra : BOOLEAN, casm : BOOLEAN] :
                       \E k \in 1..Len(Contracts) :
                           Contracts[k] = <<e.package_name, e.contract_name>>}

\* position of the contract of an entry in Contracts
ContractIdx(e) == CHOOSE k \in 1..Len(Contracts) :
                      Contracts[k] = <<e.package_name, e.contract_name>>

\* contracts of a <package>.starknet_artifacts.json: every contract is listed once
Reports == {r \in SeqsUpTo(ContractEntries, MaxEntries) :
               \A i, j \in 1..Len(r) : i < j => ContractIdx(r[i]) < ContractIdx(r[j])}

\* fileName of a contract entry: package_contract (underscore separation)
fileName(contractEntry) ==
    contractEntry.package_name \o "_" \o contractEntry.contract_name

\* names of the artifact directories the build action can create
FileNames == {fileName(entry) : entry \in ContractEntries}

VARIABLES
    task,           \* the task action being run
    pc,             \* position of the action's control flow
    outcome,        \* "none" while running, then "ok" or the error raised
    log,            \* calls made so far, in order: <<operation, argument>>
    argNetwork,     \* args.starknetNetwork ("" when not given)
    cfgNetwork,     \* hre.config.starknet.network ("" when not given)
    defaultNetwork, \* DEFAULT_STARKNET_NETWORK
    registry,       \* names defined in hre.config.networks
    network,        \* hre.starknet.network
    networkConfig,  \* hre.starknet.networkConfig
    provider,       \* provider set on hre.starknetJs
    origin,         \* origin passed to getNetwork
    devnetState,    \* state of the integrated devnet process ("none": no process)
    lifecycle,      \* states the devnet process went through
    nPaths,         \* number of requested sources paths
    pathExists,     \* pathExists[p]: sources path p exists on disk
    fileDir,        \* fileDir[f]: the sources path file f lives under (0: none)
    prior,          \* prior[f]: an earlier run left artifacts of f on disk
    pathIdx,        \* sources path being processed
    files,          \* result of traverseFiles for the current path
    fileIdx,        \* file being processed
    statusCode,     \* number of failed steps so far
    executed,       \* status code of the last external compiler process
    fs,             \* fs[<<f, kind>>]: content of an artifact file
    cache,          \* entries of the current Recompiler
    cacheFile,      \* entries of the persisted cache
    args,           \* flags of this invocation (PriorArgs: those of the earlier run)
    cacheArgs,      \* cacheArgs[f]: arguments recorded in the cache entry of f
    invoked,        \* invoked[f]: flags passed to the last compiler call for f
    skipValidate,   \* args.skipValidate
    manifest,       \* content of the Scarb.toml being processed
    report,         \* contracts of the build report being processed
    entryIdx,       \* contract entry being processed
    copied,         \* artifact files written for the current report
    artifactDir     \* artifactDir[<<fileName, kind>>]: the entry whose copy the file holds

netVars == <<argNetwork, cfgNetwork, defaultNetwork, registry, network,
             networkConfig, provider, origin, devnetState, lifecycle>>

inVars == <<nPaths, pathExists, fileDir, prior>>

compVars == <<pathIdx, files, fileIdx, statusCode, executed, fs, cache, cacheFile>>

buildVars == <<skipValidate, manifest, report, entryIdx, copied, artifactDir>>

sigVars == <<args, cacheArgs, invoked>>

vars == <<task, pc, outcome, log, netVars, inVars, compVars, buildVars, sigVars>>

\* ------------------------------------------------------------------------
\* Helpers on the call log
\* ------------------------------------------------------------------------
InLog(op, arg) == \E i \in 1..Len(log) : log[i] = <<op, arg>>

Count(op) == Cardinality({i \in 1..Len(log) : log[i][1] = op})

Throw(err) == /\ outcome' = err
              /\ pc' = "done"

\* ------------------------------------------------------------------------
\* Network resolution
\* ------------------------------------------------------------------------
isStarknetDevnet(networkName) == networkName = INTEGRATED_DEVNET

\* getNetwork(name, networks, origin) fails when the name is not registered
getNetwork(networkName) == networkName \in registry

\* a choice that gives the configured name precedence over the CLI name
chosenName_cfgFirst == IF cfgNetwork # NoName THEN cfgNetwork
                       ELSE IF argNetwork # NoName THEN argNetwork
                       ELSE defaultNetwork

\* the name setRuntimeNetwork chooses, and the origin it reports
chosenName == IF argNetwork # NoName THEN argNetwork
              ELSE IF cfgNetwork # NoName THEN cfgNetwork
              ELSE defaultNetwork

chosenOrigin == IF argNetwork # NoName THEN "--starknet-network"
                ELSE IF cfgNetwork # NoName THEN "starknet.network in hardhat.config"
                ELSE "default settings"

\* a setRuntimeNetwork whose caller does not await Recompiler.handleCache
setRuntimeNetwork_noAwait ==
    /\ origin' = chosenOrigin
    /\ IF getNetwork(chosenName)
       THEN /\ network' = chosenName
            /\ networkConfig' = chosenName
            /\ provider' = chosenName
            /\ log' = log \o << <<"setRuntimeNetwork", 0>>, <<"handleCache", 0>> >>
            /\ pc' = "runWithDevnet"
            /\ UNCHANGED outcome
       ELSE /\ Throw("unknownNetwork")
            /\ UNCHANGED <<network, networkConfig, provider, log>>
    /\ UNCHANGED <<task, args, cacheArgs, invoked, argNetwork, cfgNetwork, defaultNetwork,
                   registry, devnetState, lifecycle, inVars, buildVars, compVars>>

\* a setRuntimeNetwork that assigns the runtime network before looking it up
setRuntimeNetwork_assignFirst ==
    /\ origin' = chosenOrigin
    /\ network' = chosenName
    /\ networkConfig' = chosenName
    /\ provider' = chosenName
    /\ IF getNetwork(chosenName)
       THEN /\ log' = log \o << <<"setRuntimeNetwork", 0>>, <<"handleCache", 0>> >>
            /\ pc' = "handleCache"
            /\ UNCHANGED outcome
       ELSE /\ Throw("unknownNetwork")
            /\ UNCHANGED log
    /\ UNCHANGED <<task, args, cacheArgs, invoked, argNetwork, cfgNetwork, defaultNetwork,
                   registry, devnetState, lifecycle, inVars, buildVars, compVars>>

\* setRuntimeNetwork followed by the call of Recompiler.handleCache
setRuntimeNetwork ==
    /\ origin' = chosenOrigin
    /\ IF getNetwork(chosenName)
       THEN /\ network' = chosenName
            /\ networkConfig' = chosenName
            /\ provider' = chosenName
            /\ log' = log \o << <<"setRuntimeNetwork", 0>>, <<"handleCache", 0>> >>
            /\ pc' = "handleCache"
            /\ UNCHANGED outcome
       ELSE /\ Throw("unknownNetwork")
            /\ UNCHANGED <<network, networkConfig, provider, log>>
    /\ UNCHANGED <<task, args, cacheArgs, invoked, argNetwork, cfgNetwork, defaultNetwork,
                   registry, devnetState, lifecycle, inVars, buildVars, compVars>>

starknetTestAction ==
    /\ task = "test"
    /\ pc = "entry"
    /\ setRuntimeNetwork

\* a run action that accepts --starknet-network
starknetRunAction_noGuard ==
    /\ task = "run"
    /\ pc = "entry"
    /\ setRuntimeNetwork

starknetRunAction ==
    /\ task = "run"
    /\ pc = "entry"
    /\ IF argNetwork # NoName
       THEN /\ Throw("runNetworkArg")
            /\ UNCHANGED <<task, args, cacheArgs, invoked, log, netVars, inVars, buildVars,
                           compVars>>
       ELSE setRuntimeNetwork

\* Recompiler.handleCache resolves: runWithDevnet is entered
handleCacheReturn ==
    /\ pc = "handleCache"
    /\ log' = Append(log, <<"handleCache.done", 0>>)
    /\ pc' = "runWithDevnet"
    /\ UNCHANGED <<task, args, cacheArgs, invoked, outcome, netVars, inVars, buildVars,
                   compVars>>

\* Recompiler.handleCache rejects
handleCacheThrow ==
    /\ pc = "handleCache"
    /\ log' = Append(log, <<"handleCache.fail", 0>>)
    /\ Throw("cacheError")
    /\ UNCHANGED <<task, args, cacheArgs, invoked, netVars, inVars, buildVars, compVars>>

\* ------------------------------------------------------------------------
\* runWithDevnet
\* ------------------------------------------------------------------------
netIn == <<argNetwork, cfgNetwork, defaultNetwork, registry, network,
           networkConfig, provider, origin>>

\* a runWithDevnet that never takes the passthrough branch
runWithDevnet_always ==
    /\ pc = "runWithDevnet"
    /\ devnetState' = "Starting"
    /\ lifecycle' = <<"Idle", "Starting">>
    /\ log' = log \o << <<"createIntegratedDevnet", 0>>, <<"devnet.start", 0>> >>
    /\ pc' = "devnetStart"
    /\ UNCHANGED <<task, args, cacheArgs, invoked, outcome, netIn, inVars, buildVars, compVars>>

\* entry of runWithDevnet up to its first await
runWithDevnet ==
    /\ pc = "runWithDevnet"
    /\ IF ~isStarknetDevnet(network)
       THEN /\ log' = Append(log, <<"fn", 0>>)
            /\ pc' = "fnPassthrough"
            /\ UNCHANGED <<devnetState, lifecycle>>
       ELSE /\ devnetState' = "Starting"
            /\ lifecycle' = <<"Idle", "Starting">>
            /\ log' = log \o << <<"createIntegratedDevnet", 0>>, <<"devnet.start", 0>> >>
            /\ pc' = "devnetStart"
    /\ UNCHANGED <<task, args, cacheArgs, invoked, outcome, netIn, inVars, buildVars, compVars>>

\* passthrough branch: fn resolves
fnPassthroughReturn ==
    /\ pc = "fnPassthrough"
    /\ log' = Append(log, <<"fn.return", 0>>)
    /\ outcome' = "ok"
    /\ pc' = "done"
    /\ UNCHANGED <<task, args, cacheArgs, invoked, netVars, inVars, buildVars, compVars>>

\* passthrough branch: fn rejects
fnPassthroughThrow ==
    /\ pc = "fnPassthrough"
    /\ log' = Append(log, <<"fn.throw", 0>>)
    /\ Throw("fnError")
    /\ UNCHANGED <<task, args, cacheArgs, invoked, netVars, inVars, buildVars, compVars>>

\* devnet.start() resolves: fn is called
devnetStartReturn ==
    /\ pc = "devnetStart"
    /\ devnetState' = "Running"
    /\ lifecycle' = Append(lifecycle, "Running")
    /\ log' = log \o << <<"devnet.start.done", 0>>, <<"fn", 0>> >>
    /\ pc' = "fn"
    /\ UNCHANGED <<task, args, cacheArgs, invoked, outcome, netIn, inVars, buildVars, compVars>>

\* a runWithDevnet that goes on to fn after a failed start
devnetStartThrow_goOn ==
    /\ pc = "devnetStart"
    /\ \E alive \in BOOLEAN :
           /\ devnetState' = IF alive THEN "Starting" ELSE "Idle"
           /\ lifecycle' = IF alive THEN lifecycle ELSE Append(lifecycle, "Idle")
    /\ log' = log \o << <<"devnet.start.fail", 0>>, <<"fn", 0>> >>
    /\ pc' = "fn"
    /\ UNCHANGED <<task, args, cacheArgs, invoked, outcome, netIn, inVars, buildVars, compVars>>

\* devnet.start() rejects; the process it spawned may still be alive
devnetStartThrow ==
    /\ pc = "devnetStart"
    /\ \E alive \in BOOLEAN :
           /\ devnetState' = IF alive THEN "Starting" ELSE "Idle"
           /\ lifecycle' = IF alive THEN lifecycle ELSE Append(lifecycle, "Idle")
    /\ log' = Append(log, <<"devnet.start.fail", 0>>)
    /\ Throw("startError")
    /\ UNCHANGED <<task, args, cacheArgs, invoked, netIn, inVars, buildVars, compVars>>

\* fn resolves: control reaches devnet.stop()
fnReturn ==
    /\ pc = "fn"
    /\ log' = Append(log, <<"fn.return", 0>>)
    /\ pc' = "stop"
    /\ UNCHANGED <<task, args, cacheArgs, invoked, outcome, netVars, inVars, buildVars,
                   compVars>>

\* fn rejects: the rejection leaves runWithDevnet
fnThrow ==
    /\ pc = "fn"
    /\ log' = Append(log, <<"fn.throw", 0>>)
    /\ Throw("fnError")
    /\ UNCHANGED <<task, args, cacheArgs, invoked, netVars, inVars, buildVars, compVars>>

\* devnet.stop(), which is not awaited and not guarded
devnetStop ==
    /\ pc = "stop"
    /\ \E ok \in BOOLEAN :
           IF ok
           THEN /\ devnetState' = "Idle"
                /\ lifecycle' = lifecycle \o <<"Stopping", "Idle">>
                /\ log' = log \o << <<"devnet.stop", 0>>, <<"devnet.stop.done", 0>> >>
                /\ outcome' = "ok"
           ELSE /\ devnetState' = "Stopping"
                /\ lifecycle' = Append(lifecycle, "Stopping")
                /\ log' = log \o << <<"devnet.stop", 0>>, <<"devnet.stop.fail", 0>> >>
                /\ outcome' = "stopError"
    /\ pc' = "done"
    /\ UNCHANGED <<task, args, cacheArgs, invoked, netIn, inVars, buildVars, compVars>>

\* ------------------------------------------------------------------------
\* Compile actions (two-stage and legacy pipeline)
\* ------------------------------------------------------------------------
\* a processExecuted that hands on the raw status code
processExecuted_raw(code) == code

\* processExecuted: 0 if the process succeeded, 1 otherwise
processExecuted(code) == IF code # 0 THEN 1 ELSE 0

\* an initializeFile that leaves an existing file as it is
initializeFile_keep(fsys, filePath) ==
    IF fsys[filePath] # "absent" THEN fsys
    ELSE [fsys EXCEPT ![filePath] = "empty"]

\* initializeFile: unlink the file if it exists, then create it empty
initializeFile(fsys, filePath) ==
    LET unlinked == IF fsys[filePath] # "absent"
                    THEN [fsys EXCEPT ![filePath] = "absent"]
                    ELSE fsys
    IN  [unlinked EXCEPT ![filePath] = "empty"]

\* traverseFiles: the files under a sources path, in enumeration order
traverseFiles(p) ==
    LET S == {f \in Files : fileDir[f] = p}
    IN  CHOOSE s \in [1..Cardinality(S) -> S] :
            /\ \A i, j \in 1..Cardinality(S) : i < j => s[i] < s[j]
            /\ {s[i] : i \in 1..Cardinality(S)} = S

\* Recompiler.updateCache(args, file, ...): the entry of the file is upserted
\* with the arguments of the invocation
updateCache(entries, a, file) == [entries EXCEPT ![file] = a]

IsCompile == task \in {"compileCairo1", "compileDeprecated"}

\* head of the loop over sourcesPaths: checkSourceExists, new Recompiler,
\* traverseFiles; after the last path the aggregate status is raised
loopSourcesPaths ==
    /\ IsCompile
    /\ pc = "paths"
    /\ IF pathIdx = nPaths
       THEN /\ IF statusCode # 0 THEN outcome' = "compileFailed" ELSE outcome' = "ok"
            /\ pc' = "done"
            /\ UNCHANGED <<log, compVars>>
       ELSE IF ~pathExists[pathIdx + 1]
       THEN /\ Throw("sourceNotFound")
            /\ pathIdx' = pathIdx + 1
            /\ UNCHANGED <<log, files, fileIdx, statusCode, executed, fs, cache, cacheFile>>
       ELSE /\ pathIdx' = pathIdx + 1
            /\ cache' = cacheFile
            /\ files' = traverseFiles(pathIdx + 1)
            /\ fileIdx' = 0
            /\ pc' = "files"
            /\ UNCHANGED <<outcome, log, statusCode, executed, fs, cacheFile>>
    /\ UNCHANGED <<task, args, cacheArgs, invoked, netVars, inVars, buildVars>>

\* a loop over files that saves the cache after each file
loopFiles_saveEarly ==
    /\ IsCompile
    /\ pc = "files"
    /\ IF fileIdx = Len(files) \/ fileIdx >= 1
       THEN /\ log' = Append(log, <<"saveCache", pathIdx>>)
            /\ pc' = "saveCache"
            /\ UNCHANGED <<fileIdx, fs, invoked>>
       ELSE LET file == files[fileIdx + 1] IN
            /\ fileIdx' = fileIdx + 1
            /\ invoked' = [invoked EXCEPT ![file] = args]
            /\ IF task = "compileCairo1"
               THEN /\ fs' = initializeFile(fs, <<file, "output">>)
                    /\ log' = Append(log, <<"compileCairoToSierra", file>>)
                    /\ pc' = "sierra"
               ELSE /\ fs' = initializeFile(initializeFile(fs, <<file, "output">>),
                                            <<file, "abi">>)
                    /\ log' = Append(log, <<"deprecatedCompile", file>>)
                    /\ pc' = "deprecated"
    /\ UNCHANGED <<task, args, cacheArgs, outcome, netVars, inVars, buildVars, pathIdx,
                   files, statusCode, executed, cache, cacheFile>>

\* head of the loop over files: the next file is initialized and its
\* compiler is invoked; after the last file saveCache is called
loopFiles ==
    /\ IsCompile
    /\ pc = "files"
    /\ IF fileIdx = Len(files)
       THEN /\ log' = Append(log, <<"saveCache", pathIdx>>)
            /\ pc' = "saveCache"
            /\ UNCHANGED <<fileIdx, fs, invoked>>
       ELSE LET file == files[fileIdx + 1] IN
            /\ fileIdx' = fileIdx + 1
            /\ invoked' = [invoked EXCEPT ![file] = args]
            /\ IF task = "compileCairo1"
               THEN /\ fs' = initializeFile(fs, <<file, "output">>)
                    /\ log' = Append(log, <<"compileCairoToSierra", file>>)
                    /\ pc' = "sierra"
               ELSE /\ fs' = initializeFile(initializeFile(fs, <<file, "output">>),
                                            <<file, "abi">>)
                    /\ log' = Append(log, <<"deprecatedCompile", file>>)
                    /\ pc' = "deprecated"
    /\ UNCHANGED <<task, args, cacheArgs, outcome, netVars, inVars, buildVars, pathIdx,
                   files, statusCode, executed, cache, cacheFile>>

\* a stage 1 return that goes on to the ABI and stage 2 whatever the status
compileCairoToSierraReturn_noContinue ==
    /\ pc = "sierra"
    /\ \E code \in ExitCodes :
         LET file == files[fileIdx]
             written == IF code = 0 THEN [fs EXCEPT ![<<file, "output">>] = "new"] ELSE fs
             abiInit == initializeFile(written, <<file, "abi">>)
             abiDone == [abiInit EXCEPT ![<<file, "abi">>] = "new"]
         IN  /\ executed' = code
             /\ statusCode' = statusCode + processExecuted(code)
             /\ fs' = initializeFile(abiDone, <<file, "casm">>)
             /\ log' = log \o << <<IF code = 0 THEN "compileCairoToSierra.done"
                                   ELSE "compileCairoToSierra.fail", file>>,
                                 <<"compileSierraToCasm", file>> >>
             /\ pc' = "casm"
             /\ invoked' = [invoked EXCEPT ![file] = args]
    /\ UNCHANGED <<task, args, cacheArgs, outcome, netVars, inVars, buildVars, pathIdx,
                   files, fileIdx, cache, cacheFile>>

\* compileCairoToSierra returns: on failure continue with the next file,
\* on success write the ABI file and invoke compileSierraToCasm
compileCairoToSierraReturn ==
    /\ pc = "sierra"
    /\ \E code \in ExitCodes :
         LET file == files[fileIdx]
             written == [fs EXCEPT ![<<file, "output">>] = "new"]
             abiInit == initializeFile(written, <<file, "abi">>)
             abiDone == [abiInit EXCEPT ![<<file, "abi">>] = "new"]
         IN  /\ executed' = code
             /\ statusCode' = statusCode + processExecuted(code)
             /\ IF code # 0
                THEN /\ log' = Append(log, <<"compileCairoToSierra.fail", file>>)
                     /\ pc' = "files"
                     /\ UNCHANGED <<fs, invoked>>
                ELSE /\ fs' = initializeFile(abiDone, <<file, "casm">>)
                     /\ log' = log \o << <<"compileCairoToSierra.done", file>>,
                                         <<"compileSierraToCasm", file>> >>
                     /\ pc' = "casm"
                     /\ invoked' = [invoked EXCEPT ![file] = args]
    /\ UNCHANGED <<task, args, cacheArgs, outcome, netVars, inVars, buildVars, pathIdx,
                   files, fileIdx, cache, cacheFile>>

\* a stage 2 return that aborts the action when the compiler failed
compileSierraToCasmReturn_abort ==
    /\ pc = "casm"
    /\ \E code \in ExitCodes :
         LET file == files[fileIdx]
         IN  /\ executed' = code
             /\ statusCode' = statusCode + processExecuted(code)
             /\ fs' = IF code = 0 THEN [fs EXCEPT ![<<file, "casm">>] = "new"] ELSE fs
             /\ IF code = 0
                THEN /\ cache' = cache \cup {file}
                     /\ cacheArgs' = updateCache(cacheArgs, args, file)
                     /\ log' = log \o << <<"compileSierraToCasm.done", file>>,
                                         <<"updateCache", file>> >>
                     /\ pc' = "updateCache"
                     /\ UNCHANGED outcome
                ELSE /\ log' = Append(log, <<"compileSierraToCasm.fail", file>>)
                     /\ Throw("compileFailed")
                     /\ UNCHANGED <<cache, cacheArgs>>
    /\ UNCHANGED <<task, args, invoked, netVars, inVars, buildVars, pathIdx, files, fileIdx,
                   cacheFile>>

\* a stage 2 return that calls updateCache without awaiting it
compileSierraToCasmReturn_noAwait ==
    /\ pc = "casm"
    /\ \E code \in ExitCodes :
         LET file == files[fileIdx]
         IN  /\ executed' = code
             /\ statusCode' = statusCode + processExecuted(code)
             /\ fs' = IF code = 0 THEN [fs EXCEPT ![<<file, "casm">>] = "new"] ELSE fs
             /\ cache' = cache \cup {file}
             /\ cacheArgs' = updateCache(cacheArgs, args, file)
             /\ log' = log \o << <<IF code = 0 THEN "compileSierraToCasm.done"
                                   ELSE "compileSierraToCasm.fail", file>>,
                                 <<"updateCache", file>> >>
             /\ pc' = "files"
    /\ UNCHANGED <<task, args, invoked, outcome, netVars, inVars, buildVars, pathIdx,
                   files, fileIdx, cacheFile>>

\* compileSierraToCasm returns: the status is added and updateCache is called
compileSierraToCasmReturn ==
    /\ pc = "casm"
    /\ \E code \in ExitCodes :
         LET file == files[fileIdx]
         IN  /\ executed' = code
             /\ statusCode' = statusCode + processExecuted(code)
             /\ fs' = IF code = 0 THEN [fs EXCEPT ![<<file, "casm">>] = "new"] ELSE fs
             /\ cache' = cache \cup {file}
             /\ cacheArgs' = updateCache(cacheArgs, args, file)
             /\ log' = log \o << <<IF code = 0 THEN "compileSierraToCasm.done"
                                   ELSE "compileSierraToCasm.fail", file>>,
                                 <<"updateCache", file>> >>
             /\ pc' = "updateCache"
    /\ UNCHANGED <<task, args, invoked, outcome, netVars, inVars, buildVars, pathIdx,
                   files, fileIdx, cacheFile>>

\* a legacy return whose updateCache keeps the arguments of an existing entry
deprecatedCompileReturn_keepArgs ==
    /\ pc = "deprecated"
    /\ \E code \in ExitCodes :
         LET file == files[fileIdx]
         IN  /\ executed' = code
             /\ fs' = IF code = 0
                      THEN [fs EXCEPT ![<<file, "output">>] = "new",
                                      ![<<file, "abi">>] = "new"]
                      ELSE fs
             /\ cache' = cache \cup {file}
             /\ cacheArgs' = IF cacheArgs[file] # NoArgs THEN cacheArgs
                            ELSE updateCache(cacheArgs, args, file)
             /\ log' = log \o << <<IF code = 0 THEN "deprecatedCompile.done"
                                   ELSE "deprecatedCompile.fail", file>>,
                                 <<"updateCache", file>> >>
             /\ pc' = "updateCache"
    /\ UNCHANGED <<task, args, invoked, outcome, netVars, inVars, buildVars, pathIdx,
                   files, fileIdx, statusCode, cacheFile>>

\* deprecatedCompile returns: updateCache is called
deprecatedCompileReturn ==
    /\ pc = "deprecated"
    /\ \E code \in ExitCodes :
         LET file == files[fileIdx]
         IN  /\ executed' = code
             /\ fs' = IF code = 0
                      THEN [fs EXCEPT ![<<file, "output">>] = "new",
                                      ![<<file, "abi">>] = "new"]
                      ELSE fs
             /\ cache' = cache \cup {file}
             /\ cacheArgs' = updateCache(cacheArgs, args, file)
             /\ log' = log \o << <<IF code = 0 THEN "deprecatedCompile.done"
                                   ELSE "deprecatedCompile.fail", file>>,
                                 <<"updateCache", file>> >>
             /\ pc' = "updateCache"
    /\ UNCHANGED <<task, args, invoked, outcome, netVars, inVars, buildVars, pathIdx,
                   files, fileIdx, statusCode, cacheFile>>

\* updateCache resolves; the legacy pipeline adds the status only now
updateCacheReturn ==
    /\ pc = "updateCache"
    /\ statusCode' = IF task = "compileDeprecated"
                     THEN statusCode + processExecuted(executed)
                     ELSE statusCode
    /\ log' = Append(log, <<"updateCache.done", files[fileIdx]>>)
    /\ pc' = "files"
    /\ UNCHANGED <<task, args, cacheArgs, invoked, outcome, netVars, inVars, buildVars,
                   pathIdx, files, fileIdx, executed, fs, cache, cacheFile>>

\* saveCache resolves: the entries are persisted, next sources path
saveCacheReturn ==
    /\ pc = "saveCache"
    /\ cacheFile' = cache
    /\ log' = Append(log, <<"saveCache.done", pathIdx>>)
    /\ pc' = "paths"
    /\ UNCHANGED <<task, args, cacheArgs, invoked, outcome, netVars, inVars, buildVars,
                   pathIdx, files, fileIdx, statusCode, executed, fs, cache>>

\* ------------------------------------------------------------------------
\* Build action (manifest-based pipeline)
\* ------------------------------------------------------------------------
\* the [[target.starknet-contract]] tables that apply to the package
configCandidates(config) ==
    SelectSeq(config.targets, LAMBDA c : c.name = "" \/ c.name = PackageName)

\* a loadScarbTomlFromPath that takes the first target whatever its name
loadScarbTomlFromPath_anyTarget(config, validate) ==
    IF ~config.parses THEN "parseError"
    ELSE IF ~validate THEN "ok"
    ELSE IF Len(config.targets) = 0 THEN "validationError"
    ELSE IF ~config.targets[1].sierra \/ ~config.targets[1].casm THEN "validationError"
    ELSE "ok"

\* a loadScarbTomlFromPath that does not look at 'casm'
loadScarbTomlFromPath_noCasm(config, validate) ==
    IF ~config.parses THEN "parseError"
    ELSE IF ~validate THEN "ok"
    ELSE IF Len(configCandidates(config)) = 0 THEN "validationError"
    ELSE IF ~configCandidates(config)[1].sierra THEN "validationError"
    ELSE "ok"

\* loadScarbTomlFromPath: "ok" when the config is returned, else what is thrown
loadScarbTomlFromPath(config, validate) ==
    IF ~config.parses THEN "parseError"
    ELSE IF ~validate THEN "ok"
    ELSE IF Len(configCandidates(config)) = 0 THEN "validationError"
    ELSE IF \/ ~configCandidates(config)[1].sierra
            \/ ~configCandidates(config)[1].casm THEN "validationError"
    ELSE "ok"

RECURSIVE traverseAll(_)
\* the manifests found under the sources paths 1..n, in traversal order
traverseAll(n) == IF n = 0 THEN << >> ELSE traverseAll(n - 1) \o traverseFiles(n)

\* a findPackageConfigPaths that passes over a sources path that does not exist
findPackageConfigPaths_skipMissing ==
    /\ task = "build"
    /\ pc = "discover"
    /\ IF traverseAll(nPaths) = << >>
       THEN /\ Throw("noProjects")
            /\ UNCHANGED files
       ELSE /\ files' = traverseAll(nPaths)
            /\ pc' = "manifests"
            /\ UNCHANGED outcome
    /\ UNCHANGED <<task, args, cacheArgs, invoked, log, netVars, inVars, buildVars, pathIdx,
                   fileIdx, statusCode, executed, fs, cache, cacheFile>>

\* findPackageConfigPaths: every path must exist, and a manifest must be found
findPackageConfigPaths ==
    /\ task = "build"
    /\ pc = "discover"
    /\ IF \E p \in 1..nPaths : ~pathExists[p]
       THEN /\ Throw("sourceNotFound")
            /\ UNCHANGED files
       ELSE IF traverseAll(nPaths) = << >>
       THEN /\ Throw("noProjects")
            /\ UNCHANGED files
       ELSE /\ files' = traverseAll(nPaths)
            /\ pc' = "manifests"
            /\ UNCHANGED outcome
    /\ UNCHANGED <<task, args, cacheArgs, invoked, log, netVars, inVars, buildVars,
                   pathIdx, fileIdx, statusCode, executed, fs, cache, cacheFile>>

\* head of the loop over packageConfigPaths: the manifest is loaded; if it is
\* returned, scarbWrapper.build is invoked, else the catch block is entered;
\* after the last manifest the aggregate status is raised
loopPackageConfigPaths ==
    /\ task = "build"
    /\ pc = "manifests"
    /\ IF fileIdx = Len(files)
       THEN /\ IF statusCode # 0 THEN outcome' = "buildFailed" ELSE outcome' = "ok"
            /\ pc' = "done"
            /\ UNCHANGED <<log, fileIdx, manifest>>
       ELSE \E config \in ManifestsRead(~skipValidate) :
            LET m == files[fileIdx + 1]
                loaded == loadScarbTomlFromPath(config, ~skipValidate)
            IN  /\ fileIdx' = fileIdx + 1
                /\ manifest' = config
                /\ UNCHANGED outcome
                /\ IF loaded # "ok"
                   THEN /\ log' = Append(log, <<"loadScarbTomlFromPath." \o loaded, m>>)
                        /\ pc' = "catch"
                   ELSE /\ log' = log \o << <<"loadScarbTomlFromPath.ok", m>>,
                                            <<"scarb.build", m>> >>
                        /\ pc' = "build"
    /\ UNCHANGED <<task, args, cacheArgs, invoked, netVars, inVars, skipValidate, report,
                   entryIdx, copied, artifactDir, pathIdx, files, statusCode, executed, fs,
                   cache, cacheFile>>

\* catch block: the error is printed and counted, next manifest
catchLoadError ==
    /\ task = "build"
    /\ pc = "catch"
    /\ statusCode' = statusCode + 1
    /\ manifest' = NoManifest
    /\ pc' = "manifests"
    /\ UNCHANGED <<task, args, cacheArgs, invoked, outcome, log, netVars, inVars,
                   skipValidate, report, entryIdx, copied, artifactDir, pathIdx, files,
                   fileIdx, executed, fs, cache, cacheFile>>

\* a build return that ends the action when the build tool failed
scarbBuildReturn_stop ==
    /\ task = "build"
    /\ pc = "build"
    /\ \E code \in ExitCodes :
         LET m == files[fileIdx]
         IN  /\ executed' = code
             /\ statusCode' = statusCode + processExecuted(code)
             /\ manifest' = NoManifest
             /\ IF code # 0
                THEN /\ log' = Append(log, <<"scarb.build.fail", m>>)
                     /\ Throw("buildFailed")
                ELSE /\ log' = Append(log, <<"scarb.build.done", m>>)
                     /\ pc' = "artifact"
                     /\ UNCHANGED outcome
    /\ UNCHANGED <<task, args, cacheArgs, invoked, netVars, inVars, skipValidate, report,
                   entryIdx, copied, artifactDir, pathIdx, files, fileIdx, fs, cache,
                   cacheFile>>

\* scarbWrapper.build returns: the status is counted; on failure continue with
\* the next manifest, on success go on to the build report
scarbBuildReturn ==
    /\ task = "build"
    /\ pc = "build"
    /\ \E code \in ExitCodes :
         LET m == files[fileIdx]
         IN  /\ executed' = code
             /\ statusCode' = statusCode + processExecuted(code)
             /\ manifest' = NoManifest
             /\ IF code # 0
                THEN /\ log' = Append(log, <<"scarb.build.fail", m>>)
                     /\ pc' = "manifests"
                ELSE /\ log' = Append(log, <<"scarb.build.done", m>>)
                     /\ pc' = "artifact"
    /\ UNCHANGED <<task, args, cacheArgs, invoked, outcome, netVars, inVars, skipValidate,
                   report, entryIdx, copied, artifactDir, pathIdx, files, fileIdx, fs,
                   cache, cacheFile>>

\* loadScarbMainArtifact: throws when the build report does not exist, else
\* its contracts are what the loop over the entries goes through
loadScarbMainArtifact ==
    /\ task = "build"
    /\ pc = "artifact"
    /\ \E found \in BOOLEAN :
         LET m == files[fileIdx]
         IN  IF ~found
             THEN /\ log' = Append(log, <<"loadScarbMainArtifact.fail", m>>)
                  /\ Throw("reportMissing")
                  /\ UNCHANGED report
             ELSE \E contracts \in Reports :
                  /\ log' = Append(log, <<"loadScarbMainArtifact.ok", m>>)
                  /\ report' = contracts
                  /\ pc' = "entries"
                  /\ UNCHANGED outcome
    /\ UNCHANGED <<task, args, cacheArgs, invoked, netVars, inVars, skipValidate, manifest,
                   entryIdx, copied, artifactDir, pathIdx, files, fileIdx, statusCode,
                   executed, fs, cache, cacheFile>>

\* the artifact files written for contract entry e of the report
entryFiles(e, entry) ==
    (IF entry.sierra THEN {<<e, "output">>, <<e, "abi">>} ELSE {})
        \cup (IF entry.casm THEN {<<e, "casm">>} ELSE {})

\* the artifact directory after the copies for contract entry e: the files are
\* written under the entry's fileName
copyArtifacts(dir, e, entry) ==
    [x \in FileNames \X Kinds |->
        IF x[1] = fileName(entry) /\ <<e, x[2]>> \in entryFiles(e, entry)
        THEN e ELSE dir[x]]

\* a loop over the contracts that counts an entry without sierra or casm as failed
loopContracts_strict ==
    /\ task = "build"
    /\ pc = "entries"
    /\ IF entryIdx = Len(report)
       THEN /\ pc' = "manifests"
            /\ log' = Append(log, <<"contracts.done", files[fileIdx]>>)
            /\ report' = << >>
            /\ entryIdx' = 0
            /\ copied' = {}
            /\ artifactDir' = [x \in FileNames \X Kinds |-> 0]
            /\ UNCHANGED statusCode
       ELSE /\ entryIdx' = entryIdx + 1
            /\ copied' = copied \cup entryFiles(entryIdx + 1, report[entryIdx + 1])
            /\ artifactDir' = copyArtifacts(artifactDir, entryIdx + 1, report[entryIdx + 1])
            /\ statusCode' = IF report[entryIdx + 1].sierra /\ report[entryIdx + 1].casm
                             THEN statusCode ELSE statusCode + 1
            /\ UNCHANGED <<pc, log, report>>
    /\ UNCHANGED <<task, args, cacheArgs, invoked, outcome, netVars, inVars, skipValidate,
                   manifest, pathIdx, files, fileIdx, executed, fs, cache, cacheFile>>

\* loop over mainPackageArtifact.contracts: sierra (with the ABI) and casm are
\* copied when the entry names them
loopContracts ==
    /\ task = "build"
    /\ pc = "entries"
    /\ IF entryIdx = Len(report)
       THEN /\ pc' = "manifests"
            /\ log' = Append(log, <<"contracts.done", files[fileIdx]>>)
            /\ report' = << >>
            /\ entryIdx' = 0
            /\ copied' = {}
            /\ artifactDir' = [x \in FileNames \X Kinds |-> 0]
       ELSE /\ entryIdx' = entryIdx + 1
            /\ copied' = copied \cup entryFiles(entryIdx + 1, report[entryIdx + 1])
            /\ artifactDir' = copyArtifacts(artifactDir, entryIdx + 1, report[entryIdx + 1])
            /\ UNCHANGED <<pc, log, report>>
    /\ UNCHANGED <<task, args, cacheArgs, invoked, outcome, netVars, inVars, skipValidate,
                   manifest, pathIdx, files, fileIdx, statusCode, executed, fs, cache,
                   cacheFile>>

\* ------------------------------------------------------------------------
\* Initial states
\* ------------------------------------------------------------------------
InitTestRun ==
    /\ task \in {"test", "run"}
    /\ pc = "entry"
    /\ outcome = "none"
    /\ log = << >>
    /\ argNetwork \in NetworkNames \cup {NoName}
    /\ cfgNetwork \in NetworkNames \cup {NoName}
    /\ defaultNetwork \in NetworkNames
    /\ registry \in SUBSET NetworkNames
    /\ network = NoName
    /\ networkConfig = NoName
    /\ provider = NoName
    /\ origin = NoName
    /\ devnetState = "none"
    /\ lifecycle = << >>
    /\ nPaths = 0
    /\ pathExists = << >>
    /\ fileDir = [f \in Files |-> 0]
    /\ prior = [f \in Files |-> FALSE]
    /\ pathIdx = 0
    /\ files = << >>
    /\ fileIdx = 0
    /\ statusCode = 0
    /\ executed = 0
    /\ fs = [x \in Files \X Kinds |-> "absent"]
    /\ cache = {}
    /\ cacheFile = {}
    /\ skipValidate = FALSE
    /\ manifest = NoManifest
    /\ report = << >>
    /\ entryIdx = 0
    /\ copied = {}
    /\ artifactDir = [x \in FileNames \X Kinds |-> 0]
    /\ args = PriorArgs
    /\ cacheArgs = [f \in Files |-> NoArgs]
    /\ invoked = [f \in Files |-> NoArgs]

\* the artifact files an earlier run left for the files it compiled
priorFs(pr) == [x \in Files \X Kinds |-> IF pr[x[1]] THEN "old" ELSE "absent"]

InitCompile ==
    /\ task \in {"compileCairo1", "compileDeprecated"}
    /\ pc = "paths"
    /\ outcome = "none"
    /\ log = << >>
    /\ argNetwork = NoName
    /\ cfgNetwork = NoName
    /\ defaultNetwork = INTEGRATED_DEVNET
    /\ registry = {}
    /\ network = NoName
    /\ networkConfig = NoName
    /\ provider = NoName
    /\ origin = NoName
    /\ devnetState = "none"
    /\ lifecycle = << >>
    /\ nPaths \in 1..MaxPaths
    /\ pathExists \in [1..nPaths -> BOOLEAN]
    /\ fileDir \in [Files -> 0..nPaths]
    /\ \A f \in Files : fileDir[f] # 0 => pathExists[fileDir[f]]
    /\ prior \in [Files -> BOOLEAN]
    /\ pathIdx = 0
    /\ files = << >>
    /\ fileIdx = 0
    /\ statusCode = 0
    /\ executed = 0
    /\ fs = priorFs(prior)
    /\ cache = {}
    /\ cacheFile = {f \in Files : prior[f]}
    /\ skipValidate = FALSE
    /\ manifest = NoManifest
    /\ report = << >>
    /\ entryIdx = 0
    /\ copied = {}
    /\ artifactDir = [x \in FileNames \X Kinds |-> 0]
    /\ args \in ArgsValues
    /\ cacheArgs = [f \in Files |-> IF prior[f] THEN PriorArgs ELSE NoArgs]
    /\ invoked = [f \in Files |-> NoArgs]

\* the manifests are numbered in the order in which the traversal finds them
InitBuild ==
    /\ task = "build"
    /\ pc = "discover"
    /\ outcome = "none"
    /\ log = << >>
    /\ argNetwork = NoName
    /\ cfgNetwork = NoName
    /\ defaultNetwork = INTEGRATED_DEVNET
    /\ registry = {}
    /\ network = NoName
    /\ networkConfig = NoName
    /\ provider = NoName
    /\ origin = NoName
    /\ devnetState = "none"
    /\ lifecycle = << >>
    /\ nPaths \in 1..MaxPaths
    /\ pathExists \in [1..nPaths -> BOOLEAN]
    /\ fileDir \in [Files -> 0..nPaths]
    /\ \A f \in Files : fileDir[f] # 0 => pathExists[fileDir[f]]
    /\ \A f, g \in Files : (f < g /\ fileDir[g] # 0)
                                => (fileDir[f] # 0 /\ fileDir[f] <= fileDir[g])
    /\ prior = [f \in Files |-> FALSE]
    /\ pathIdx = 0
    /\ files = << >>
    /\ fileIdx = 0
    /\ statusCode = 0
    /\ executed = 0
    /\ fs = [x \in Files \X Kinds |-> "absent"]
    /\ cache = {}
    /\ cacheFile = {}
    /\ skipValidate \in BOOLEAN
    /\ manifest = NoManifest
    /\ report = << >>
    /\ entryIdx = 0
    /\ copied = {}
    /\ artifactDir = [x \in FileNames \X Kinds |-> 0]
    /\ args = PriorArgs
    /\ cacheArgs = [f \in Files |-> NoArgs]
    /\ invoked = [f \in Files |-> NoArgs]

Init == InitTestRun \/ InitCompile \/ InitBuild

Next ==
    \/ starknetTestAction
    \/ starknetRunAction
    \/ handleCacheReturn
    \/ handleCacheThrow
    \/ runWithDevnet
    \/ fnPassthroughReturn
    \/ fnPassthroughThrow
    \/ devnetStartReturn
    \/ devnetStartThrow
    \/ fnReturn
    \/ fnThrow
    \/ devnetStop
    \/ loopSourcesPaths
    \/ loopFiles
    \/ compileCairoToSierraReturn
    \/ compileSierraToCasmReturn
    \/ deprecatedCompileReturn
    \/ updateCacheReturn
    \/ saveCacheReturn
    \/ findPackageConfigPaths
    \/ loopPackageConfigPaths
    \/ catchLoadError
    \/ scarbBuildReturn
    \/ loadScarbMainArtifact
    \/ loopContracts

Spec == Init /\ [][Next]_vars

\* ------------------------------------------------------------------------
\* Properties of runWithDevnet
\* ------------------------------------------------------------------------
Terminated == devnetState = "Idle"

\* C1: on the integrated devnet, when start() completed and fn() threw,
\* devnet.stop() ran exactly once and the process is terminated by the time
\* the exception reaches the caller.
C1_StopAfterFnThrow ==
    (pc = "done" /\ InLog("devnet.start.done", 0) /\ InLog("fn.throw", 0))
        => (Count("devnet.stop") = 1 /\ Terminated)

\* C2: when devnet.start() fails, devnet.stop() is still invoked before the
\* failure reaches the caller and no devnet process is left running.
C2_StopAfterStartFailure ==
    (pc = "done" /\ InLog("devnet.start.fail", 0))
        => (Count("devnet.stop") >= 1 /\ Terminated)

\* C3: a failure of devnet.stop() is never thrown: after it the caller gets
\* a normal completion if fn completed and fn's exception if fn threw.
C3_StopFailureNotThrown ==
    (pc = "done" /\ InLog("devnet.stop.fail", 0))
        => /\ InLog("fn.return", 0) => outcome = "ok"
           /\ InLog("fn.throw", 0) => outcome = "fnError"

\* C4: when devnet.start() fails, fn is never called and the start failure
\* is what the action raises.
C4_StartFailureSkipsFn ==
    InLog("devnet.start.fail", 0)
        => /\ Count("fn") = 0
           /\ pc = "done"
           /\ outcome = "startError"

C4_Witness ==
    /\ InLog("devnet.start.fail", 0)
    /\ pc = "done"
    /\ outcome = "startError"

IsPrefix(s, t) == /\ Len(s) <= Len(t)
                  /\ \A i \in 1..Len(s) : s[i] = t[i]

\* C5: a supervised action creates exactly one devnet process, whose states
\* follow Idle -> Starting -> Running -> Stopping -> Idle; fn begins only
\* once start() completed, stop() is invoked only once fn finished, and the
\* action returns to its caller only after stop() was invoked.
C5_Lifecycle ==
    (InLog("handleCache.done", 0) /\ pc # "runWithDevnet" /\ isStarknetDevnet(network))
        => /\ Count("createIntegratedDevnet") = 1
           /\ IsPrefix(lifecycle, <<"Idle", "Starting", "Running", "Stopping", "Idle">>)
           /\ InLog("fn", 0) => (InLog("devnet.start.done", 0) /\ Count("devnet.start") = 1)
           /\ InLog("devnet.stop", 0) => (InLog("fn.return", 0) \/ InLog("fn.throw", 0))
           /\ pc = "done" => InLog("devnet.stop", 0)

\* C6: when the resolved network is not the integrated devnet, no devnet
\* process is created, started or stopped, fn is invoked exactly once and
\* its outcome is what runWithDevnet hands to the caller.
C6_Passthrough ==
    (InLog("handleCache.done", 0) /\ pc # "runWithDevnet" /\ ~isStarknetDevnet(network))
        => /\ Count("createIntegratedDevnet") = 0
           /\ Count("devnet.start") = 0
           /\ Count("devnet.stop") = 0
           /\ Count("fn") = 1
           /\ pc = "done" => \/ InLog("fn.return", 0) /\ outcome = "ok"
                             \/ InLog("fn.throw", 0) /\ outcome = "fnError"

C6_Witness ==
    /\ pc = "done"
    /\ network # NoName
    /\ ~isStarknetDevnet(network)
    /\ InLog("fn.throw", 0)
    /\ outcome = "fnError"

\* ------------------------------------------------------------------------
\* Properties of the compile actions
\* ------------------------------------------------------------------------
\* C7: in the legacy pipeline updateCache is called for a file only if
\* deprecatedCompile reported success for it.
C7_LegacyCacheOnlyOnSuccess ==
    task = "compileDeprecated"
        => \A f \in Files :
               InLog("updateCache", f) => InLog("deprecatedCompile.done", f)

\* C8: in the two-stage pipeline updateCache is called for a file only if
\* both compileCairoToSierra and compileSierraToCasm reported success.
C8_TwoStageCacheOnlyOnSuccess ==
    task = "compileCairo1"
        => \A f \in Files :
               InLog("updateCache", f)
                   => /\ InLog("compileCairoToSierra.done", f)
                      /\ InLog("compileSierraToCasm.done", f)

\* the call that follows the processing of file f in its sources path
NextCall(f) ==
    LET fs1 == traverseFiles(fileDir[f])
        i == CHOOSE k \in 1..Len(fs1) : fs1[k] = f
    IN  IF i < Len(fs1) THEN <<"compileCairoToSierra", fs1[i + 1]>>
        ELSE <<"saveCache", fileDir[f]>>

\* C9: when compileCairoToSierra fails for a file, compileSierraToCasm is
\* not invoked for it, its ABI and casm files are as they were before the
\* run, and processing continues with the next file.
C9_Stage1FailureSkipsRest ==
    task = "compileCairo1"
        => /\ \A f \in Files :
                InLog("compileCairoToSierra.fail", f)
                    => /\ ~InLog("compileSierraToCasm", f)
                       /\ fs[<<f, "abi">>] = priorFs(prior)[<<f, "abi">>]
                       /\ fs[<<f, "casm">>] = priorFs(prior)[<<f, "casm">>]
           /\ \A i \in 1..Len(log) :
                log[i][1] = "compileCairoToSierra.fail"
                    => IF i = Len(log)
                       THEN pc = "files" /\ files[fileIdx] = log[i][2]
                       ELSE log[i + 1] = NextCall(log[i][2])

C9_Witness ==
    /\ task = "compileCairo1"
    /\ pc = "done"
    /\ prior[1]
    /\ fileDir[1] = fileDir[2]
    /\ InLog("compileCairoToSierra.fail", 1)
    /\ InLog("compileCairoToSierra", 2)

\* the artifact files of one source file in the pipeline being run
ArtifactSet == IF task = "compileCairo1" THEN {"output", "abi", "casm"}
               ELSE {"output", "abi"}

Processed(f) == InLog("compileCairoToSierra", f) \/ InLog("deprecatedCompile", f)

CompileOps == {"compileCairoToSierra", "deprecatedCompile"}

FailOps == {"compileCairoToSierra.fail", "compileSierraToCasm.fail",
            "deprecatedCompile.fail"}

\* the files for which an external compiler step reported a failure
FailedFiles == {f \in Files : \E op \in FailOps : InLog(op, f)}

\* the files the action discovers unless a missing sources path stops it
Discovered == {f \in Files : /\ fileDir[f] # 0
                             /\ \A p \in 1..fileDir[f] : pathExists[p]}

\* C11: a compilation failure of one file never aborts the batch: the action
\* ends only at the end of the batch or on a missing sources path, and by then
\* the compiler was invoked for every discovered file.
C11_FailureDoesNotAbort ==
    (IsCompile /\ pc = "done")
        => /\ \A f \in Discovered : Processed(f)
           /\ \/ outcome \in {"ok", "compileFailed"} /\ pathIdx = nPaths
              \/ outcome = "sourceNotFound" /\ ~pathExists[pathIdx]

C11_Witness ==
    /\ IsCompile
    /\ pc = "done"
    /\ \E i, j \in 1..Len(log) :
         /\ i < j
         /\ log[i][1] \in FailOps
         /\ log[j][1] \in CompileOps

SaveIdx(p) == {i \in 1..Len(log) : log[i] = <<"saveCache", p>>}

\* the loop over the files of sources path p has ended
PathFinished(p) ==
    \/ p < pathIdx
    \/ p = pathIdx /\ pc \in {"saveCache", "paths"}
    \/ p = pathIdx /\ pc = "done" /\ pathExists[p]

FileOps == CompileOps \cup FailOps \cup
           {"compileCairoToSierra.done", "compileSierraToCasm", "compileSierraToCasm.done",
            "deprecatedCompile.done", "updateCache", "updateCache.done"}

\* C13: saveCache is called exactly once per processed sources path, after
\* every compilation attempt and every updateCache of the files under that
\* path, never between two of its files, also when some of them failed.
C13_SaveCacheAfterFiles ==
    IsCompile
        => \A p \in 1..nPaths :
             /\ Cardinality(SaveIdx(p)) = IF PathFinished(p) THEN 1 ELSE 0
             /\ \A i \in SaveIdx(p) :
                  /\ \A f \in Files : fileDir[f] = p =>
                         \E j \in 1..(i - 1) : log[j][1] \in CompileOps /\ log[j][2] = f
                  /\ \A j \in 1..Len(log) :
                         (log[j][1] \in FileOps /\ fileDir[log[j][2]] = p) => j < i

C13_Witness ==
    /\ IsCompile
    /\ pc = "done"
    /\ \E p \in 1..nPaths :
         /\ InLog("saveCache.done", p)
         /\ Cardinality({f \in Files : fileDir[f] = p}) = 2
         /\ \E f \in FailedFiles : fileDir[f] = p

\* ------------------------------------------------------------------------
\* Properties of the test and run actions
\* ------------------------------------------------------------------------
\* every call of b is preceded by a call of a
Before(a, b) ==
    \A j \in 1..Len(log) : log[j][1] = b => \E i \in 1..(j - 1) : log[i][1] = a

\* C14: in the test and run actions network resolution comes first, then
\* handleCache to completion, then the devnet start, then the unit of work.
C14_CacheBeforeWork ==
    task \in {"test", "run"}
        => /\ Before("setRuntimeNetwork", "handleCache")
           /\ Before("handleCache", "handleCache.done")
           /\ Before("handleCache.done", "createIntegratedDevnet")
           /\ Before("handleCache.done", "devnet.start")
           /\ Before("handleCache.done", "fn")
           /\ isStarknetDevnet(network) => Before("devnet.start.done", "fn")

C14_Witness ==
    /\ task = "run"
    /\ pc = "fn"
    /\ InLog("devnet.start.done", 0)
    /\ InLog("fn", 0)

\* C20: setRuntimeNetwork takes the CLI name if given, else the configured
\* name if given, else the default; the origin it reports is the one of the
\* source of that name, and an unregistered name fails without a fallback.
C20_NetworkPrecedence ==
    InLog("setRuntimeNetwork", 0) \/ outcome = "unknownNetwork"
        => LET name == CASE argNetwork # NoName -> argNetwork
                         [] argNetwork = NoName /\ cfgNetwork # NoName -> cfgNetwork
                         [] OTHER -> defaultNetwork
               from == CASE argNetwork # NoName -> "--starknet-network"
                         [] argNetwork = NoName /\ cfgNetwork # NoName
                                -> "starknet.network in hardhat.config"
                         [] OTHER -> "default settings"
           IN  /\ origin = from
               /\ name \in registry => network = name /\ outcome # "unknownNetwork"
               /\ name \notin registry
                      => /\ outcome = "unknownNetwork"
                         /\ network = NoName
                         /\ ~InLog("setRuntimeNetwork", 0)

C20_Witness ==
    /\ argNetwork # NoName
    /\ cfgNetwork # NoName
    /\ Cardinality({argNetwork, cfgNetwork, defaultNetwork}) = 3
    /\ cfgNetwork \in registry
    /\ network = argNetwork
    /\ origin = "--starknet-network"

\* ------------------------------------------------------------------------
\* Properties of the build action
\* ------------------------------------------------------------------------
\* the manifest being processed
Cur == files[fileIdx]

\* a target configuration that omits 'name' or names the package
Applicable(c) == c.name = "" \/ c.name = PackageName

ApplicableIdx(config) == {i \in 1..Len(config.targets) : Applicable(config.targets[i])}

\* the first applicable configuration sets both sierra and casm
FirstApplicableComplete(config) ==
    /\ ApplicableIdx(config) # {}
    /\ LET i == CHOOSE k \in ApplicableIdx(config) : \A l \in ApplicableIdx(config) : k <= l
       IN  config.targets[i].sierra /\ config.targets[i].casm

\* a manifest is in hand, parsed, and validation is enabled
Validating ==
    /\ task = "build"
    /\ pc \in {"catch", "build"}
    /\ ~skipValidate
    /\ manifest.parses

\* C15: with validation enabled, a manifest without a target configuration
\* that omits 'name' or names the package is rejected, and scarbWrapper.build
\* is never invoked for it.
C15_NoApplicableRejected ==
    /\ (Validating /\ ApplicableIdx(manifest) = {})
           => /\ pc = "catch"
              /\ InLog("loadScarbTomlFromPath.validationError", Cur)
              /\ ~InLog("scarb.build", Cur)
    /\ task = "build"
           => \A m \in Files : InLog("loadScarbTomlFromPath.validationError", m)
                                   => ~InLog("scarb.build", m)

C15_Witness ==
    /\ Validating
    /\ pc = "catch"
    /\ Len(manifest.targets) = 2
    /\ ApplicableIdx(manifest) = {}
    /\ manifest.targets[1].sierra /\ manifest.targets[1].casm

\* C16 as stated: with validation enabled, the build tool is invoked for a
\* manifest only if exactly one target configuration is applicable and it
\* sets both sierra and casm; every other manifest is rejected.
C16_ExactlyOneApplicable ==
    Validating
        => (pc = "build" <=> /\ Cardinality(ApplicableIdx(manifest)) = 1
                             /\ FirstApplicableComplete(manifest))

\* C16 amended: with validation enabled, the build tool is invoked for a
\* manifest if and only if at least one target configuration is applicable
\* and the first applicable one sets both sierra and casm.
C16_FirstApplicableComplete ==
    Validating
        => /\ pc = "build" <=> FirstApplicableComplete(manifest)
           /\ pc = "build" => InLog("scarb.build", Cur)
           /\ pc = "catch" => ~InLog("scarb.build", Cur)

C16_Witness ==
    /\ Validating
    /\ pc = "build"
    /\ Cardinality(ApplicableIdx(manifest)) = 2
    /\ ~manifest.targets[2].casm

LoadOps == {"loadScarbTomlFromPath.ok", "loadScarbTomlFromPath.parseError",
            "loadScarbTomlFromPath.validationError"}

\* the manifests discovered by findPackageConfigPaths
Manifest(m) == \E i \in 1..Len(files) : files[i] = m

Loaded(m) == \E op \in LoadOps : InLog(op, m)

\* the failures counted by the build action
BuildFailures == Count("loadScarbTomlFromPath.parseError")
                 + Count("loadScarbTomlFromPath.validationError")
                 + Count("scarb.build.fail")

\* C17: a manifest that fails validation adds exactly 1 to the failure count
\* and is skipped, every other discovered manifest is still loaded and built,
\* and the only error that leaves the action is the aggregate error raised
\* after all manifests.
C17_ValidationFailureIsolated ==
    (task = "build" /\ pc = "done"
        /\ \E m \in Files : InLog("loadScarbTomlFromPath.validationError", m))
        => /\ outcome = "buildFailed"
           /\ statusCode = BuildFailures
           /\ \A m \in Files : Manifest(m) => Loaded(m)
           /\ \A m \in Files : InLog("loadScarbTomlFromPath.ok", m) => InLog("scarb.build", m)

\* C18: when the build succeeded for a manifest and its build report is
\* missing, the remaining manifests are still processed and the failure is
\* counted in the aggregate result.
C18_MissingReportIsolated ==
    (task = "build" /\ pc = "done"
        /\ \E m \in Files : InLog("loadScarbMainArtifact.fail", m))
        => /\ outcome = "buildFailed"
           /\ statusCode >= Count("loadScarbMainArtifact.fail")
           /\ \A m \in Files : Manifest(m) => Loaded(m)

\* the load that follows the contracts of manifest m
NextManifest(m) ==
    LET i == CHOOSE k \in 1..Len(files) : files[k] = m
    IN  files[i + 1]

\* C19: a contract entry without sierra or casm never adds to the failure
\* count and never raises; what it lacks is not copied (no ABI without
\* sierra), and the remaining entries and manifests are still processed.
C19_PartialEntrySkipped ==
    task = "build"
        => /\ pc # "catch" => statusCode = BuildFailures
           /\ pc = "entries"
                  => /\ outcome = "none"
                     /\ \A e \in 1..Len(report) :
                          /\ <<e, "output">> \in copied <=> (e <= entryIdx /\ report[e].sierra)
                          /\ <<e, "abi">> \in copied <=> (e <= entryIdx /\ report[e].sierra)
                          /\ <<e, "casm">> \in copied <=> (e <= entryIdx /\ report[e].casm)
           /\ \A m \in Files :
                  InLog("loadScarbMainArtifact.ok", m)
                      => InLog("contracts.done", m) \/ (pc = "entries" /\ Cur = m)
           /\ \A i \in 1..Len(log) :
                  log[i][1] = "contracts.done"
                      => IF i = Len(log)
                         THEN \/ pc = "manifests"
                              \/ /\ pc = "done"
                                 /\ fileIdx = Len(files)
                                 /\ outcome \in {"ok", "buildFailed"}
                         ELSE /\ log[i + 1][1] \in LoadOps
                              /\ log[i + 1][2] = NextManifest(log[i][2])

C19_Witness ==
    /\ task = "build"
    /\ pc = "entries"
    /\ Len(report) = 2
    /\ entryIdx = 2
    /\ ~report[1].sierra
    /\ report[1].casm
    /\ ~report[2].casm
    /\ copied = {<<1, "casm">>, <<2, "output">>, <<2, "abi">>}
    /\ statusCode = 0

\* ------------------------------------------------------------------------
\* Properties of network resolution in the run and test actions
\* ------------------------------------------------------------------------
\* C21 as stated: in the run action, a registered CLI-level network name
\* supplied together with a configured name is the network the action
\* resolves and runs against.
C21_RunUsesCliNetwork ==
    (task = "run" /\ pc # "entry" /\ argNetwork # NoName /\ cfgNetwork # NoName
        /\ getNetwork(argNetwork))
        => /\ network = argNetwork
           /\ provider = argNetwork
           /\ InLog("setRuntimeNetwork", 0)

\* C21 amended: the run action rejects a CLI-level network name before it
\* resolves anything, and without one it resolves the configured name, or
\* else the default; the test action resolves the CLI-level name.
C21_RunRejectsCliNetwork ==
    /\ (task = "run" /\ pc # "entry" /\ argNetwork # NoName)
           => /\ outcome = "runNetworkArg"
              /\ pc = "done"
              /\ log = << >>
              /\ network = NoName /\ networkConfig = NoName /\ provider = NoName
              /\ origin = NoName
    /\ (task = "run" /\ pc # "entry" /\ argNetwork = NoName)
           => LET name == IF cfgNetwork # NoName THEN cfgNetwork ELSE defaultNetwork
              IN  IF getNetwork(name)
                  THEN network = name /\ provider = name /\ InLog("setRuntimeNetwork", 0)
                  ELSE outcome = "unknownNetwork"
    /\ (task = "test" /\ pc # "entry" /\ argNetwork # NoName /\ getNetwork(argNetwork))
           => network = argNetwork /\ provider = argNetwork

C21_Witness ==
    /\ task = "run"
    /\ pc = "done"
    /\ argNetwork # NoName
    /\ cfgNetwork # NoName
    /\ cfgNetwork # argNetwork
    /\ {argNetwork, cfgNetwork, defaultNetwork} \subseteq registry
    /\ outcome = "runNetworkArg"

\* C22: when network resolution fails in a test or run action, the action
\* ends at once: the cache is not handled, no devnet is created or started,
\* the unit of work is not run, and hre.starknet.network, networkConfig and
\* the provider are as they were.
C22_ResolutionFailureIsFatal ==
    /\ outcome = "unknownNetwork"
           => /\ pc = "done"
              /\ log = << >>
              /\ devnetState = "none"
              /\ lifecycle = << >>
              /\ network = NoName /\ networkConfig = NoName /\ provider = NoName
    /\ (task \in {"test", "run"} /\ pc # "entry" /\ ~getNetwork(chosenName)
            /\ (task = "run" => argNetwork = NoName))
           => outcome = "unknownNetwork"

C22_Witness ==
    /\ task = "test"
    /\ outcome = "unknownNetwork"
    /\ argNetwork # NoName
    /\ argNetwork \notin registry
    /\ cfgNetwork \in registry
    /\ defaultNetwork \in registry

\* ------------------------------------------------------------------------
\* Properties of the recompilation cache in the compile actions
\* ------------------------------------------------------------------------
\* every external compiler call of the compile actions
CompilerCalls == CompileOps \cup {"compileSierraToCasm"}

\* C23: a compile action run again on a file whose content and invocation
\* arguments are as in a successful earlier run makes no external compiler
\* invocation for the file and leaves every file of its ArtifactSet as it was.
C23_UnchangedNotRecompiled ==
    IsCompile
        => \A f \in Files :
               (prior[f] /\ args = PriorArgs)
                   => /\ \A op \in CompilerCalls : ~InLog(op, f)
                      /\ \A k \in ArtifactSet : fs[<<f, k>>] = "old"

\* C24: a compile action run on a file with unchanged content and a changed
\* flag invokes the external compiler for the file with the new flags, and
\* the cache entry it records for the file carries the new arguments.
C24_ChangedFlagRecompiles ==
    IsCompile
        => \A f \in Files :
               /\ (prior[f] /\ args # PriorArgs /\ fileDir[f] # 0 /\ PathFinished(fileDir[f]))
                      => /\ Processed(f)
                         /\ invoked[f] = args
               /\ invoked[f] \in {NoArgs, args}
               /\ InLog("updateCache", f) => cacheArgs[f] = args
               /\ ~InLog("updateCache", f)
                      => cacheArgs[f] = IF prior[f] THEN PriorArgs ELSE NoArgs

C24_Witness ==
    /\ task = "compileDeprecated"
    /\ pc = "done"
    /\ outcome = "ok"
    /\ args # PriorArgs
    /\ prior[1]
    /\ InLog("deprecatedCompile.done", 1)
    /\ invoked[1] = args
    /\ cacheArgs[1] = args

\* ------------------------------------------------------------------------
\* Sequential processing
\* ------------------------------------------------------------------------
\* calls of the compile and build actions that are awaited, or synchronous
StartOps == {"compileCairoToSierra", "compileSierraToCasm", "deprecatedCompile",
             "updateCache", "saveCache", "scarb.build"}

\* the log entries that report the completion of a call
Completions == [op \in StartOps |-> {op \o ".done", op \o ".fail"}]

\* the position at which a call of op is in flight
InFlightAt(op) ==
    CASE op = "compileCairoToSierra" -> "sierra"
      [] op = "compileSierraToCasm" -> "casm"
      [] op = "deprecatedCompile" -> "deprecated"
      [] op = "updateCache" -> "updateCache"
      [] op = "saveCache" -> "saveCache"
      [] op = "scarb.build" -> "build"

\* steps that belong to one manifest of the build action
ManifestOps == LoadOps \cup {"scarb.build", "scarb.build.done", "scarb.build.fail",
                             "loadScarbMainArtifact.ok", "loadScarbMainArtifact.fail",
                             "contracts.done"}

\* f comes before g in the enumeration of the sources paths
Precedes(f, g) == \/ fileDir[f] < fileDir[g]
                  \/ fileDir[f] = fileDir[g] /\ f < g

\* steps that belong to one file or one manifest
StepOps == FileOps \cup ManifestOps

\* the positions in the log of the steps made for each file (or manifest)
Steps == [f \in Files |-> {i \in 1..Len(log) : log[i][2] = f /\ log[i][1] \in StepOps}]

\* every position in S comes before every position in T
AllBefore(S, T) == S = {} \/ T = {} \/ (CHOOSE i \in S : \A k \in S : k <= i)
                                         < (CHOOSE j \in T : \A k \in T : j <= k)

\* C25: within a compile or build action at most one external call is in
\* flight: a call is followed by its own completion before anything else
\* happens, every step of a file (or manifest), its cache update included,
\* comes before every step of the next one, and the order is the
\* enumeration order.
C25_Sequential ==
    (IsCompile \/ task = "build")
        => /\ \A i \in 1..Len(log) :
                  log[i][1] \in StartOps
                      => IF i = Len(log)
                         THEN pc = InFlightAt(log[i][1])
                         ELSE /\ log[i + 1][1] \in Completions[log[i][1]]
                              /\ log[i + 1][2] = log[i][2]
           /\ LET steps == Steps
              IN  \A g \in Files :
                      steps[g] # {}
                          => /\ fileDir[g] # 0
                             /\ \A f \in Files :
                                    (fileDir[f] # 0 /\ Precedes(f, g))
                                        => /\ steps[f] # {}
                                           /\ AllBefore(steps[f], steps[g])

C25_Witness ==
    /\ task = "compileCairo1"
    /\ pc = "done"
    /\ fileDir[1] = 1
    /\ fileDir[2] = 1
    /\ InLog("updateCache.done", 1)
    /\ InLog("updateCache.done", 2)
    /\ InLog("compileSierraToCasm.fail", 1)

\* ------------------------------------------------------------------------
\* Invocations of the build tool
\* ------------------------------------------------------------------------
\* number of scarbWrapper.build calls made for manifest m
Builds(m) == Cardinality({i \in 1..Len(log) : log[i] = <<"scarb.build", m>>})

C27_DistinctEntriesDistinctFiles ==
    (task = "build" /\ pc = "entries")
        => /\ \A i, j \in 1..Len(report) :
                  i # j => fileName(report[i]) # fileName(report[j])
           /\ \A e \in 1..entryIdx : \A k \in Kinds :
                  <<e, k>> \in copied => artifactDir[<<fileName(report[e]), k>>] = e

\* C28: discovery over all requested sources paths ends before any build:
\* when a requested path does not exist, or no manifest is found, the build
\* action fails without a call of the build tool and without writing an
\* artifact file.
C28_DiscoveryBeforeBuild ==
    task = "build"
        => /\ outcome \in {"sourceNotFound", "noProjects"}
                  => /\ log = << >>
                     /\ statusCode = 0
                     /\ copied = {}
                     /\ \A x \in FileNames \X Kinds : artifactDir[x] = 0
                     /\ \A x \in Files \X Kinds : fs[x] = "absent"
           /\ (pc # "discover" /\ \E p \in 1..nPaths : ~pathExists[p])
                  => outcome = "sourceNotFound"
           /\ (pc # "discover" /\ \A f \in Files : fileDir[f] = 0)
                  => outcome \in {"sourceNotFound", "noProjects"}
           /\ (pc # "discover" /\ outcome \notin {"sourceNotFound", "noProjects"})
                  => /\ \A p \in 1..nPaths : pathExists[p]
                     /\ Len(files) = Cardinality({f \in Files : fileDir[f] # 0})
                     /\ Len(files) >= 1

C28_Witness ==
    /\ task = "build"
    /\ pc = "done"
    /\ nPaths = 2
    /\ pathExists[1]
    /\ ~pathExists[2]
    /\ fileDir[1] = 1
    /\ outcome = "sourceNotFound"
    /\ log = << >>

====
